---- MODULE Spec2Model ----
(***************************************************************************)
(* The anonymous engagement tracker of ApopetV1.0: the usePetLikes hook    *)
(* (hooks/use-pet-likes.ts), the browser storage that holds the visitor    *)
(* identity, and the two store tables the hook talks to (pets.likes_count  *)
(* and pet_likes).  Every asynchronous function of the hook is a task      *)
(* whose steps are the code between two awaits.  An insert, a delete and   *)
(* the pet_likes lookup are executed by the store in a step of their own,  *)
(* between the step that sends the request and the step that handles the   *)
(* response; the read of pets.likes_count is executed in the step that     *)
(* handles its response, which only sends the next request.                *)
(***************************************************************************)
EXTENDS Integers, Sequences, FiniteSets, TLC

VARIABLES
    petId,        \* the petId argument of usePetLikes ("" when the caller has no pet yet)
    mounted,      \* the useEffect of the current page load has run
    stats,        \* useState<PetLikeStats>: [likesCount, isLiked]
    loading,      \* useState(true)
    processing,   \* useState(false)
    visitor_id,   \* localStorage item 'visitor_id' (Null when absent)
    likes_count,  \* store: pets.likes_count, per pet
    pet_likes,    \* store: rows of pet_likes, as <<pet_id, ip_address>> pairs
    fetches,      \* fetchLikeStats calls in flight
    mutations,    \* likePet / unlikePet calls in flight
    toast,        \* the last toast shown
    generated,    \* how many visitor tokens this browser has generated so far
    lastVisitorId,\* history: the token the last getVisitorId call returned (Null before the first)
    last,         \* history: the likePet / unlikePet call that settled in the last step the
                  \* hook took (NoLast when that step was anything else)
    location,     \* window.location: [pathname, search, hash]
    publicPetId,  \* PublicViewRouter: useState<string | null>(null) (NoMatch when null)
    listening,    \* PublicViewRouter: the popstate listener is registered
    lastEvent,    \* history: what the router saw last: "load", "mount" or "popstate"
    user,         \* PublicPetProfile: the user of useAuth() (Null when nobody is signed in)
    showAuthPrompt, \* PublicPetProfile: useState(false)
    clicked,      \* history: the last handleLikeClick: whose click it was and how it ended
    storageOk,    \* localStorage can be read and written (FALSE: getItem / setItem throw)
    tabs,         \* two tabs of one browser, each with a tracker of its own
    dash,         \* UserDashboard: actualLikes, its fetch and the realtime channel
    posts,        \* usePosts: the local list, its calls in flight and the store's rows
    notif         \* useNotifications: the local list, unreadCount and the store's rows

hookVars ==
    <<petId, mounted, stats, loading, processing, visitor_id, likes_count,
      pet_likes, fetches, mutations, toast, generated, lastVisitorId, last>>

routerVars ==
    <<location, publicPetId, listening, lastEvent>>

pageVars ==
    <<user, showAuthPrompt, clicked>>

extraVars ==
    <<storageOk, tabs, dash, posts, notif>>

vars ==
    <<hookVars, routerVars, pageVars, extraVars>>

----------------------------------------------------------------------------
(* Bounds of the model *)

MaxOtherLikes ==
    1

MaxFetches ==
    1

MaxMutations ==
    2

\* fetches in flight at once when the public page navigates between pets
MaxNavFetches ==
    2

----------------------------------------------------------------------------
(* Values *)

Null ==
    "null"

NoPet ==
    ""

Pets ==
    {"p1"}

PetIds ==
    Pets \cup {NoPet}

\* the tokens `visitor_${Date.now()}_${Math.random()...}` yields, in the order generated:
\* every generated token differs from the ones generated before it
Tokens ==
    <<"visitor_1", "visitor_2">>

RemoveAt(s, i) ==
    SubSeq(s, 1, i - 1) \o SubSeq(s, i + 1, Len(s))

\* JavaScript `pet?.likes_count || 0`; the row read is <<>> (null) or <<likes_count>>
OrZero(pet) ==
    IF pet = <<>> THEN 0 ELSE IF pet[1] = 0 THEN 0 ELSE pet[1]

MathMax0Identity(n) ==
    n

\* Math.max(0, n)
MathMax0(n) ==
    IF n < 0 THEN 0 ELSE n

InitialStats ==
    [likesCount |-> 0, isLiked |-> FALSE]

\* the toasts of the hook (their texts without accents and emoji)
ToastLoadError ==
    "Error al cargar informacion de likes"

ToastInvalidPet ==
    "ID de mascota no valido"

ToastAlreadyLiked ==
    "Ya has dado like a esta mascota"

ToastLiked ==
    "Like dado"

ToastLikeError ==
    "Error al dar like"

ToastUnliked ==
    "Like removido"

ToastUnlikeError ==
    "Error al quitar like"

NoLast ==
    [kind |-> "none", result |-> "none", before |-> -1, trip |-> -1, returned |-> FALSE]

----------------------------------------------------------------------------
(* getVisitorId: the token returned and the storage content it leaves *)

\* the token a generation yields now
NewToken ==
    Tokens[IF generated < Len(Tokens) THEN generated + 1 ELSE Len(Tokens)]

\* the number of tokens generated, after a getVisitorId call
GeneratedAfterCall ==
    IF visitor_id # Null \/ generated = Len(Tokens) THEN generated ELSE generated + 1

getVisitorIdNoPersist(fresh) ==
    IF visitor_id = Null
        THEN [visitorId |-> fresh, storage |-> visitor_id]
        ELSE [visitorId |-> visitor_id, storage |-> visitor_id]

getVisitorId(fresh) ==
    IF visitor_id = Null
        THEN [visitorId |-> fresh, storage |-> fresh]
        ELSE [visitorId |-> visitor_id, storage |-> visitor_id]

----------------------------------------------------------------------------
(* The state updates of the hook *)

LikedStatsNoIncrement(prev) ==
    [likesCount |-> prev.likesCount, isLiked |-> TRUE]

\* setStats(prev => ({ likesCount: prev.likesCount + 1, isLiked: true }))
LikedStats(prev) ==
    [likesCount |-> prev.likesCount + 1, isLiked |-> TRUE]

ConflictStatsIncrement(prev) ==
    [likesCount |-> prev.likesCount + 1, isLiked |-> TRUE]

\* setStats(prev => ({ ...prev, isLiked: true }))
ConflictStats(prev) ==
    [prev EXCEPT !.isLiked = TRUE]

UnlikedStatsKeepsCount(prev) ==
    [likesCount |-> prev.likesCount, isLiked |-> FALSE]

UnlikedStatsNoFloor(prev) ==
    [likesCount |-> prev.likesCount - 1, isLiked |-> FALSE]

\* setStats(prev => ({ likesCount: Math.max(0, prev.likesCount - 1), isLiked: false }))
UnlikedStats(prev) ==
    [likesCount |-> MathMax0(prev.likesCount - 1), isLiked |-> FALSE]

FetchedStatsAdded(prev, t) ==
    [likesCount |-> prev.likesCount + OrZero(t.pet), isLiked |-> t.existingLike]

\* setStats({ likesCount: pet?.likes_count || 0, isLiked: !!existingLike })
FetchedStats(prev, t) ==
    [likesCount |-> OrZero(t.pet), isLiked |-> t.existingLike]

ToggleBlockedNever ==
    FALSE

ToggleBlockedOnLoading ==
    loading

\* if (processing) return false
ToggleBlocked ==
    processing

----------------------------------------------------------------------------
(* Task records *)

NewFetch(pid, vid) ==
    [petId |-> pid, visitorId |-> vid, pc |-> "pets_sent", pet |-> <<>>,
     likeError |-> FALSE, existingLike |-> FALSE, stale |-> FALSE]

NewMutation(kind, pid, vid) ==
    \* count0, trip0 are history: the count displayed when the call was made, and the
    \* count the like before it started from when this is the unlike that follows it
    [kind |-> kind, petId |-> pid, visitorId |-> vid, pc |-> "sent", result |-> "none",
     count0 |-> stats.likesCount,
     trip0 |-> IF kind = "unlike" /\ last.kind = "like" /\ last.result = "ok"
                   THEN last.before
               ELSE IF kind = "unlike" /\ last.kind = "unlike" /\ last.result = "error"
                   THEN last.trip
               ELSE -1]

\* history: a store change makes what a fetch has already read out of date
MarkStale(fs) ==
    [j \in DOMAIN fs |->
        IF fs[j].pc = "pets_sent" THEN fs[j] ELSE [fs[j] EXCEPT !.stale = TRUE]]

\* history: a fetch result replaced the stats while the mutation was in flight
MarkDisturbed(ms) ==
    [j \in DOMAIN ms |-> [ms[j] EXCEPT !.count0 = -1, !.trip0 = -1]]

----------------------------------------------------------------------------
(* The parts of the page that a specification leaves out stay as constructed *)

\* setPublicPetId(null) / useState<string | null>(null): no captured id
NoMatch ==
    <<>>

NoLocation ==
    [pathname |-> <<>>, search |-> "", hash |-> ""]

RouterIdle ==
    /\ location = NoLocation
    /\ publicPetId = NoMatch
    /\ listening = FALSE
    /\ lastEvent = "load"

\* history: no like button click yet
NoClick ==
    [by |-> Null, outcome |-> "none"]

PageIdle ==
    /\ user = Null
    /\ showAuthPrompt = FALSE
    /\ clicked = NoClick

\* localStorage works
StorageFine ==
    storageOk = TRUE

TabsIdle ==
    tabs = <<>>

DashIdle ==
    dash = <<>>

PostsIdle ==
    posts = <<>>

NotifIdle ==
    notif = <<>>

HookIdle ==
    /\ petId = NoPet
    /\ mounted = FALSE
    /\ stats = InitialStats
    /\ loading = TRUE
    /\ processing = FALSE
    /\ visitor_id = Null
    /\ generated = 0
    /\ likes_count = [p \in Pets |-> 0]
    /\ pet_likes = {}
    /\ fetches = <<>>
    /\ mutations = <<>>
    /\ toast = "none"
    /\ lastVisitorId = Null
    /\ last = NoLast

----------------------------------------------------------------------------
HookInit ==
    /\ petId \in PetIds
    /\ mounted = FALSE
    /\ stats = InitialStats
    /\ loading = TRUE
    /\ processing = FALSE
    /\ \/ visitor_id = Null /\ generated = 0
       \/ visitor_id = Tokens[1] /\ generated = 1
    /\ likes_count \in [Pets -> 0..MaxOtherLikes]
    /\ pet_likes = {}
    /\ fetches = <<>>
    /\ mutations = <<>>
    /\ toast = "none"
    /\ lastVisitorId = Null
    /\ last = NoLast

Init ==
    /\ HookInit
    /\ RouterIdle
    /\ PageIdle
    /\ StorageFine
    /\ TabsIdle
    /\ DashIdle
    /\ PostsIdle
    /\ NotifIdle

----------------------------------------------------------------------------
(* fetchLikeStats *)

\* what the catch and finally blocks of fetchLikeStats leave in `loading`
FetchFailedLoadingStuck ==
    loading

FetchFailedLoading ==
    FALSE

\* the synchronous head of fetchLikeStats, up to the first await; the model lets at most
\* `max` fetches be in flight
fetchLikeStatsWithin(max, pid, fresh) ==
    IF pid = NoPet
        THEN /\ loading' = FALSE
             /\ UNCHANGED <<visitor_id, generated, lastVisitorId, fetches, toast>>
    ELSE IF ~storageOk
        THEN \* getBrowserInfo() throws inside the try: catch, finally
             /\ toast' = ToastLoadError
             /\ loading' = FetchFailedLoading
             /\ UNCHANGED <<visitor_id, generated, lastVisitorId, fetches>>
        ELSE /\ Len(fetches) < max
             /\ UNCHANGED toast
             /\ loading' = TRUE
             /\ LET gv == getVisitorId(fresh) IN
                    /\ visitor_id' = gv.storage
                    /\ generated' = GeneratedAfterCall
                    /\ lastVisitorId' = gv.visitorId
                    /\ fetches' = Append(fetches, NewFetch(pid, gv.visitorId))

fetchLikeStats(pid, fresh) ==
    fetchLikeStatsWithin(MaxFetches, pid, fresh)

\* useEffect(() => { fetchLikeStats() }, [petId]) on the first render
Mount ==
    /\ ~mounted
    /\ mounted' = TRUE
    /\ fetchLikeStats(petId, NewToken)
    /\ last' = NoLast
    /\ UNCHANGED <<petId, stats, processing, likes_count, pet_likes, mutations>>
    /\ UNCHANGED <<routerVars, pageVars, extraVars>>

\* the caller invokes the returned `refresh`
Refresh ==
    /\ mounted
    /\ fetchLikeStats(petId, NewToken)
    /\ last' = NoLast
    /\ UNCHANGED <<petId, mounted, stats, processing, likes_count, pet_likes, mutations>>
    /\ UNCHANGED <<routerVars, pageVars, extraVars>>

\* the caller re-renders with another petId; the effect runs again
ChangePetId ==
    /\ mounted
    /\ \E pid \in PetIds \ {petId} :
        /\ petId' = pid
        /\ fetchLikeStats(pid, NewToken)
    /\ last' = NoLast
    /\ UNCHANGED <<mounted, stats, processing, likes_count, pet_likes, mutations>>
    /\ UNCHANGED <<routerVars, pageVars, extraVars>>

\* the store answers supabase.from('pets').select('likes_count').eq('id', petId).single()
\* and fetchLikeStats resumes after the first await
FetchAfterPets ==
    /\ \E i \in DOMAIN fetches :
        /\ fetches[i].pc = "pets_sent"
        /\ \/ \* petError: throw -> catch -> finally
              /\ toast' = ToastLoadError
              /\ loading' = FetchFailedLoading
              /\ fetches' = RemoveAt(fetches, i)
              /\ last' = NoLast
           \/ /\ fetches' = [fetches EXCEPT ![i] =
                    [@ EXCEPT !.pc = "likes_sent",
                              !.pet = <<likes_count[fetches[i].petId]>>]]
              /\ UNCHANGED <<toast, loading, last>>
    /\ UNCHANGED <<petId, mounted, stats, processing, visitor_id, likes_count, pet_likes,
                   mutations, generated, lastVisitorId>>
    /\ UNCHANGED <<routerVars, pageVars, extraVars>>

\* the store answers the pet_likes lookup (.maybeSingle()); an error of this read is
\* only logged and leaves existingLike null
StoreReadLikes ==
    /\ \E i \in DOMAIN fetches :
        /\ fetches[i].pc = "likes_sent"
        /\ \E failed \in BOOLEAN :
            fetches' = [fetches EXCEPT ![i] =
                [@ EXCEPT !.pc = "likes_resp",
                          !.likeError = failed,
                          !.existingLike =
                              IF failed THEN FALSE
                              ELSE <<fetches[i].petId, fetches[i].visitorId>> \in pet_likes]]
    /\ UNCHANGED <<petId, mounted, stats, loading, processing, visitor_id, likes_count,
                   pet_likes, mutations, toast, generated, lastVisitorId, last>>
    /\ UNCHANGED <<routerVars, pageVars, extraVars>>

\* fetchLikeStats resumes after the second await: setStats, finally setLoading(false)
FetchApply ==
    /\ \E i \in DOMAIN fetches :
        /\ fetches[i].pc = "likes_resp"
        /\ stats' = FetchedStats(stats, fetches[i])
        /\ loading' = FALSE
        /\ fetches' = RemoveAt(fetches, i)
    /\ mutations' = MarkDisturbed(mutations)
    /\ last' = NoLast
    /\ UNCHANGED <<petId, mounted, processing, visitor_id, likes_count, pet_likes, toast,
                   generated, lastVisitorId>>
    /\ UNCHANGED <<routerVars, pageVars, extraVars>>

----------------------------------------------------------------------------
(* likePet, unlikePet, toggleLike *)

\* the synchronous head of likePet / unlikePet, up to the await
StartMutation(kind, fresh) ==
    IF petId = NoPet
        THEN /\ toast' = ToastInvalidPet
             /\ UNCHANGED <<processing, visitor_id, generated, lastVisitorId, mutations>>
    ELSE IF ~storageOk
        THEN \* setProcessing(true), getBrowserInfo() throws: catch, finally
             /\ toast' = IF kind = "like" THEN ToastLikeError ELSE ToastUnlikeError
             /\ processing' = FALSE
             /\ UNCHANGED <<visitor_id, generated, lastVisitorId, mutations>>
        ELSE /\ Len(mutations) < MaxMutations
             /\ processing' = TRUE
             /\ LET gv == getVisitorId(fresh) IN
                    /\ visitor_id' = gv.storage
                    /\ generated' = GeneratedAfterCall
                    /\ lastVisitorId' = gv.visitorId
                    /\ mutations' = Append(mutations, NewMutation(kind, petId, gv.visitorId))
             /\ UNCHANGED toast

likePet(fresh) ==
    StartMutation("like", fresh)

unlikePet(fresh) ==
    StartMutation("unlike", fresh)

toggleLike(fresh) ==
    IF ToggleBlocked
        THEN UNCHANGED <<processing, visitor_id, generated, lastVisitorId, mutations,
                         toast, last>>
        ELSE /\ IF stats.isLiked THEN unlikePet(fresh) ELSE likePet(fresh)
             /\ last' = NoLast

\* the like button is clicked
Toggle ==
    /\ mounted
    /\ toggleLike(NewToken)
    /\ UNCHANGED <<petId, mounted, stats, loading, likes_count, pet_likes, fetches>>
    /\ UNCHANGED <<routerVars, pageVars, extraVars>>

CountAfterInsertAndClientWrite(n) ==
    n + 2

\* "El trigger automaticamente actualizara likes_count en pets": the insert is the only
\* request likePet sends, and the store's trigger raises the counter by one
CountAfterInsert(n) ==
    n + 1

\* the delete is the only request unlikePet sends; the trigger lowers the counter by one
CountAfterDelete(n) ==
    n - 1

\* the store executes the insert into pet_likes; its trigger maintains pets.likes_count
StoreInsert ==
    /\ \E i \in DOMAIN mutations :
        LET t == mutations[i]
            row == <<t.petId, t.visitorId>> IN
        /\ t.pc = "sent"
        /\ t.kind = "like"
        /\ \/ /\ row \notin pet_likes
              /\ pet_likes' = pet_likes \cup {row}
              /\ likes_count' = [likes_count EXCEPT ![t.petId] = CountAfterInsert(@)]
              /\ fetches' = MarkStale(fetches)
              /\ mutations' = [mutations EXCEPT ![i].pc = "resp", ![i].result = "ok"]
           \/ /\ row \in pet_likes
              /\ mutations' = [mutations EXCEPT ![i].pc = "resp", ![i].result = "23505"]
              /\ UNCHANGED <<pet_likes, likes_count, fetches>>
           \/ /\ mutations' = [mutations EXCEPT ![i].pc = "resp", ![i].result = "error"]
              /\ UNCHANGED <<pet_likes, likes_count, fetches>>
    /\ UNCHANGED <<petId, mounted, stats, loading, processing, visitor_id, toast,
                   generated, lastVisitorId, last>>
    /\ UNCHANGED <<routerVars, pageVars, extraVars>>

\* the store executes the delete from pet_likes; its trigger maintains pets.likes_count
StoreDelete ==
    /\ \E i \in DOMAIN mutations :
        LET t == mutations[i]
            row == <<t.petId, t.visitorId>> IN
        /\ t.pc = "sent"
        /\ t.kind = "unlike"
        /\ \/ /\ row \in pet_likes
              /\ pet_likes' = pet_likes \ {row}
              /\ likes_count' = [likes_count EXCEPT ![t.petId] = CountAfterDelete(@)]
              /\ fetches' = MarkStale(fetches)
              /\ mutations' = [mutations EXCEPT ![i].pc = "resp", ![i].result = "ok"]
           \/ /\ row \notin pet_likes
              /\ mutations' = [mutations EXCEPT ![i].pc = "resp", ![i].result = "ok"]
              /\ UNCHANGED <<pet_likes, likes_count, fetches>>
           \/ /\ mutations' = [mutations EXCEPT ![i].pc = "resp", ![i].result = "error"]
              /\ UNCHANGED <<pet_likes, likes_count, fetches>>
    /\ UNCHANGED <<petId, mounted, stats, loading, processing, visitor_id, toast,
                   generated, lastVisitorId, last>>
    /\ UNCHANGED <<routerVars, pageVars, extraVars>>

\* the boolean likePet / unlikePet resolve to: `return true` is reached only after a
\* request without error; the 23505 branch and the catch block `return false`
Returned(t) ==
    t.result = "ok"

\* the history record of the call that settles
Settled(t) ==
    [kind |-> t.kind, result |-> t.result, before |-> t.count0,
     trip |-> IF t.kind = "unlike" THEN t.trip0 ELSE -1, returned |-> Returned(t)]

FailedStatsOptimistic(prev, t) ==
    IF t.kind = "like" THEN LikedStats(prev) ELSE UnlikedStats(prev)

\* the catch blocks of likePet and unlikePet do not touch stats
FailedStats(prev, t) ==
    prev

SettledProcessingNoFinally(t) ==
    t.result = "error"

\* finally { setProcessing(false) } of likePet and unlikePet
SettledProcessing(t) ==
    FALSE

\* likePet resumes after the await
LikeResponse ==
    /\ \E i \in DOMAIN mutations :
        LET t == mutations[i] IN
        /\ t.pc = "resp"
        /\ t.kind = "like"
        /\ IF t.result = "ok"
              THEN /\ stats' = LikedStats(stats)
                   /\ toast' = ToastLiked
              ELSE IF t.result = "23505"
              THEN /\ stats' = ConflictStats(stats)
                   /\ toast' = ToastAlreadyLiked
              ELSE /\ stats' = FailedStats(stats, t)
                   /\ toast' = ToastLikeError
        /\ processing' = SettledProcessing(t)
        /\ mutations' = RemoveAt(mutations, i)
        /\ last' = Settled(t)
    /\ UNCHANGED <<petId, mounted, loading, visitor_id, likes_count, pet_likes, fetches,
                   generated, lastVisitorId>>
    /\ UNCHANGED <<routerVars, pageVars, extraVars>>

\* unlikePet resumes after the await
UnlikeResponse ==
    /\ \E i \in DOMAIN mutations :
        LET t == mutations[i] IN
        /\ t.pc = "resp"
        /\ t.kind = "unlike"
        /\ IF t.result = "ok"
              THEN /\ stats' = UnlikedStats(stats)
                   /\ toast' = ToastUnliked
              ELSE /\ stats' = FailedStats(stats, t)
                   /\ toast' = ToastUnlikeError
        /\ processing' = SettledProcessing(t)
        /\ mutations' = RemoveAt(mutations, i)
        /\ last' = Settled(t)
    /\ UNCHANGED <<petId, mounted, loading, visitor_id, likes_count, pet_likes, fetches,
                   generated, lastVisitorId>>
    /\ UNCHANGED <<routerVars, pageVars, extraVars>>

----------------------------------------------------------------------------
(* The environment: other visitors, the browser *)

\* another visitor likes or unlikes a pet
OtherVisitor ==
    /\ \E p \in Pets :
        LET own == Cardinality({r \in pet_likes : r[1] = p}) IN
        \/ /\ likes_count[p] - own < MaxOtherLikes
           /\ likes_count' = [likes_count EXCEPT ![p] = @ + 1]
        \/ /\ likes_count[p] - own > 0
           /\ likes_count' = [likes_count EXCEPT ![p] = @ - 1]
    /\ fetches' = MarkStale(fetches)
    /\ UNCHANGED <<petId, mounted, stats, loading, processing, visitor_id, pet_likes,
                   mutations, toast, generated, lastVisitorId, last>>
    /\ UNCHANGED <<routerVars, pageVars, extraVars>>

\* the page is loaded again: the hook state is constructed anew and the requests of the
\* old page are abandoned; storage and store persist
Reload ==
    /\ mounted
    /\ petId' \in PetIds
    /\ mounted' = FALSE
    /\ stats' = InitialStats
    /\ loading' = TRUE
    /\ processing' = FALSE
    /\ fetches' = <<>>
    /\ mutations' = <<>>
    /\ toast' = "none"
    /\ last' = NoLast
    /\ UNCHANGED <<visitor_id, likes_count, pet_likes, generated, lastVisitorId>>
    /\ UNCHANGED <<routerVars, pageVars, extraVars>>

Next ==
    \/ Mount
    \/ Refresh
    \/ ChangePetId
    \/ FetchAfterPets
    \/ StoreReadLikes
    \/ FetchApply
    \/ Toggle
    \/ StoreInsert
    \/ StoreDelete
    \/ LikeResponse
    \/ UnlikeResponse
    \/ OtherVisitor
    \/ Reload

Spec ==
    Init /\ [][Next]_vars

\* the same tracker in a browser whose localStorage may be unavailable (access denied,
\* storage disabled): getItem and setItem throw
StorageInit ==
    /\ HookInit
    /\ RouterIdle
    /\ PageIdle
    /\ storageOk \in BOOLEAN
    /\ TabsIdle
    /\ DashIdle
    /\ PostsIdle
    /\ NotifIdle

SpecStorage ==
    StorageInit /\ [][Next]_vars

----------------------------------------------------------------------------
(* PublicViewRouter (components/public-view-router.tsx).  A path is the      *)
(* sequence of its characters, and the regular expression of                 *)
(* detectPublicRoute is matched character by character.                      *)

\* the {36} of the regular expression
IdLen ==
    36

UpperCase ==
    <<"A", "B", "C", "D", "E", "F", "G", "H", "I", "J", "K", "L", "M",
      "N", "O", "P", "Q", "R", "S", "T", "U", "V", "W", "X", "Y", "Z">>

LowerCase ==
    <<"a", "b", "c", "d", "e", "f", "g", "h", "i", "j", "k", "l", "m",
      "n", "o", "p", "q", "r", "s", "t", "u", "v", "w", "x", "y", "z">>

ToLower ==
    [c \in {UpperCase[k] : k \in DOMAIN UpperCase} |->
        LowerCase[CHOOSE k \in DOMAIN UpperCase : UpperCase[k] = c]]

\* the 'i' flag: letters are compared without regard to case
Lower(c) ==
    IF c \in DOMAIN ToLower THEN ToLower[c] ELSE c

REPO_NAME ==
    <<"A", "p", "o", "p", "e", "t", "V", "1", ".", "0">>

\* one pattern character against one path character; REPO_NAME is interpolated into the
\* pattern unescaped, so its '.' is the wildcard
MatchAtom(p, c) ==
    IF p = "." THEN TRUE ELSE Lower(p) = Lower(c)

\* the pattern characters pat match s from position i on
MatchSeq(pat, s, i) ==
    /\ i + Len(pat) - 1 <= Len(s)
    /\ \A k \in 1..Len(pat) : MatchAtom(pat[k], s[i + k - 1])

\* [a-f0-9-] under the 'i' flag
IdChar(c) ==
    Lower(c) \in {"a", "b", "c", "d", "e", "f",
                  "0", "1", "2", "3", "4", "5", "6", "7", "8", "9", "-"}

\* \/pet\/([a-f0-9-]{36})$ from position j on
PetTailAt(s, j) ==
    /\ MatchSeq(<<"/", "p", "e", "t", "/">>, s, j)
    /\ Len(s) = j + 5 + IdLen - 1
    /\ \A k \in 1..IdLen : IdChar(s[j + 5 + k - 1])

\* (?:\/ApopetV1.0)? : where the rest of the pattern starts when the whole of it matches
\* from position i on (0 when it does not); the group is tried first
TailStart(s, i) ==
    IF MatchSeq(<<"/">> \o REPO_NAME, s, i) /\ PetTailAt(s, i + 1 + Len(REPO_NAME))
        THEN i + 1 + Len(REPO_NAME)
    ELSE IF PetTailAt(s, i) THEN i
    ELSE 0

\* the pattern of the copy of the router that has no deployment prefix:
\* /^\/pet\/([a-f0-9-]{36})$/i
detectPublicRouteLocal(path) ==
    IF PetTailAt(path, 1) THEN SubSeq(path, 6, 5 + IdLen) ELSE NoMatch

\* path.match(regex): the pattern has no '^', so the leftmost position from which it
\* matches is taken; the result is petMatch[1], or NoMatch when setPublicPetId(null)
detectPublicRoute(path) ==
    LET starts == {i \in 1..Len(path) : TailStart(path, i) # 0} IN
    IF starts = {} THEN NoMatch
    ELSE LET i == CHOOSE i \in starts : \A j \in starts : i <= j
             t == TailStart(path, i) IN
         SubSeq(path, t + 5, t + 4 + IdLen)

\* the listener registered for 'popstate' is detectPublicRoute itself
OnPopstateUnheard(path) ==
    publicPetId

OnPopstate(path) ==
    detectPublicRoute(path)

(* The locations the browser is sent to *)

Rep(c, n) ==
    [k \in 1..n |-> c]

\* an identifier of five groups of 8, 4, 4, 4 and 12 characters, one character per group
Grouped(a, b, c, d, e) ==
    Rep(a, 8) \o <<"-">> \o Rep(b, 4) \o <<"-">> \o Rep(c, 4) \o <<"-">> \o Rep(d, 4)
        \o <<"-">> \o Rep(e, 12)

SampleIds ==
    { Grouped("a", "0", "f", "9", "c"),           \* a UUID in lower case
      Grouped("A", "0", "F", "9", "C"),           \* the same in upper case
      Grouped("a", "1", "F", "9", "c"),           \* mixed case
      Grouped("g", "0", "f", "9", "c"),           \* a letter that is no hex digit
      Rep("a", IdLen),                            \* hex digits only, no dashes
      Rep("-", IdLen),                            \* dashes only
      SubSeq(Grouped("a", "0", "f", "9", "c"), 1, IdLen - 1),   \* one character short
      Grouped("a", "0", "f", "9", "c") \o <<"0">> }             \* one character long

SamplePrefixes ==
    { <<>>,
      <<"/">> \o REPO_NAME,
      <<"/", "A", "p", "o", "p", "e", "t", "V", "1", "x", "0">>,
      <<"/", "a", "p", "p">> }

SampleSegments ==
    { <<"/", "p", "e", "t", "/">>,
      <<"/", "p", "e", "t", "s", "/">> }

SampleSuffixes ==
    { <<>>, <<"/">> }

Paths ==
    { pre \o seg \o id \o suf :
        pre \in SamplePrefixes, seg \in SampleSegments, id \in SampleIds,
        suf \in SampleSuffixes }
    \cup { <<"/">>,
           <<"/">> \o REPO_NAME \o <<"/">>,
           <<"/">> \o REPO_NAME \o <<"/", "p", "e", "t", "/">> }

\* the query string and the fragment are parts of the location of their own
Locations ==
    { [pathname |-> p, search |-> "", hash |-> ""] : p \in Paths }
    \cup { [pathname |-> pre \o <<"/", "p", "e", "t", "/">> \o id, search |-> q[1],
            hash |-> q[2]] :
              pre \in {<<>>, <<"/">> \o REPO_NAME},
              id \in {Grouped("a", "0", "f", "9", "c"), Rep("a", IdLen - 1)},
              q \in {<<"?ref=qr", "">>, <<"", "#contacto">>} }

RouteInit ==
    /\ HookIdle
    /\ PageIdle
    /\ StorageFine
    /\ TabsIdle
    /\ DashIdle
    /\ PostsIdle
    /\ NotifIdle
    /\ location \in Locations
    /\ publicPetId = NoMatch
    /\ listening = FALSE
    /\ lastEvent = "load"

\* the effect of PublicViewRouter runs: detectPublicRoute(), addEventListener
RouterMount ==
    /\ ~listening
    /\ publicPetId' = detectPublicRoute(location.pathname)
    /\ listening' = TRUE
    /\ lastEvent' = "mount"
    /\ UNCHANGED <<location, hookVars, pageVars, extraVars>>

\* the visitor goes back or forward in the history of the document
PopState ==
    /\ listening
    /\ \E loc \in Locations :
        /\ location' = loc
        /\ publicPetId' = OnPopstate(loc.pathname)
    /\ lastEvent' = "popstate"
    /\ UNCHANGED <<listening, hookVars, pageVars, extraVars>>

\* the browser loads a document (a scanned QR code, window.location.href = HOME_URL)
PageLoad ==
    /\ \E loc \in Locations : location' = loc
    /\ publicPetId' = NoMatch
    /\ listening' = FALSE
    /\ lastEvent' = "load"
    /\ UNCHANGED <<hookVars, pageVars, extraVars>>

RouteNext ==
    \/ RouterMount
    \/ PopState
    \/ PageLoad

SpecRoute ==
    RouteInit /\ [][RouteNext]_vars

\* what PublicViewRouter renders
Rendered(id) ==
    IF id # NoMatch THEN [view |-> "PublicPetProfile", petId |-> id]
    ELSE [view |-> "children", petId |-> NoMatch]

----------------------------------------------------------------------------
(* PublicPetProfile (components/public-pet-profile.tsx): the like button of  *)
(* the public page, on top of the hook.                                      *)

\* the users useAuth() yields when somebody is signed in (a Supabase User)
Users ==
    {"u1"}

\* user.isGuest: no code of the application gives a user this property
isGuest(u) ==
    FALSE

\* the properties of the object usePetLikes returns
HookReturn ==
    {"likesCount", "isLiked", "loading", "processing", "likePet", "unlikePet",
     "toggleLike", "refresh"}

\* const { currentLikes, userLiked, handleLikeToggle, sessionID } = usePetLikes(...):
\* a property the hook does not return is undefined
Destructured(name) ==
    IF name \in HookReturn THEN name ELSE "undefined"

PageInit ==
    /\ HookInit
    /\ petId # NoPet
    /\ RouterIdle
    /\ StorageFine
    /\ TabsIdle
    /\ DashIdle
    /\ PostsIdle
    /\ NotifIdle
    /\ user \in Users \cup {Null}
    /\ showAuthPrompt = FALSE
    /\ clicked = NoClick

\* onClick={handleLikeClick}; reading a property of null and calling undefined throw a
\* TypeError, which ends the handler
handleLikeClick ==
    /\ mounted
    /\ IF user = Null
          THEN /\ clicked' = [by |-> user, outcome |-> "TypeError"]
               /\ UNCHANGED <<hookVars, showAuthPrompt>>
       ELSE IF isGuest(user)
          THEN /\ showAuthPrompt' = TRUE
               /\ clicked' = [by |-> user, outcome |-> "prompt"]
               /\ UNCHANGED hookVars
       ELSE IF Destructured("handleLikeToggle") = "undefined"
          THEN /\ clicked' = [by |-> user, outcome |-> "TypeError"]
               /\ UNCHANGED <<hookVars, showAuthPrompt>>
       ELSE /\ toggleLike(NewToken)
            /\ clicked' = [by |-> user, outcome |-> "toggle"]
            /\ UNCHANGED <<petId, mounted, stats, loading, likes_count, pet_likes,
                           fetches, showAuthPrompt>>
    /\ UNCHANGED <<user, routerVars, extraVars>>

\* onAuthStateChange: setUser(currentSession?.user ?? null)
AuthStateChange ==
    /\ \E u \in Users \cup {Null} :
        /\ u # user
        /\ user' = u
    /\ UNCHANGED <<hookVars, routerVars, showAuthPrompt, clicked, extraVars>>

PageNext ==
    \/ Mount
    \/ FetchAfterPets
    \/ StoreReadLikes
    \/ FetchApply
    \/ OtherVisitor
    \/ handleLikeClick
    \/ AuthStateChange

SpecPage ==
    PageInit /\ [][PageNext]_vars

----------------------------------------------------------------------------
(* Two tabs of one browser on the page of the same pet.  The tabs run in     *)
(* parallel and share localStorage and the store; within a tab the code      *)
(* between two storage accesses or awaits is one step.  Each tab makes one   *)
(* likePet call.                                                             *)

TabIds ==
    {1, 2}

TabPet ==
    "p1"

\* the part of the hook state that two tabs do not use
TabsFrame ==
    <<petId, mounted, stats, loading, processing, fetches, mutations, toast,
      lastVisitorId, last, routerVars, pageVars, storageOk, dash, posts, notif>>

NoUniqueIndex(row) ==
    FALSE

\* the unique index of pet_likes that answers a second insert with 23505
Conflicts(row) ==
    row \in pet_likes

TabsInit ==
    /\ petId = TabPet
    /\ mounted = TRUE
    /\ stats = InitialStats
    /\ loading = FALSE
    /\ processing = FALSE
    /\ \/ visitor_id = Null /\ generated = 0
       \/ visitor_id = Tokens[1] /\ generated = 1
    /\ likes_count \in [Pets -> 0..MaxOtherLikes]
    /\ pet_likes = {}
    /\ fetches = <<>>
    /\ mutations = <<>>
    /\ toast = "none"
    /\ lastVisitorId = Null
    /\ last = NoLast
    /\ RouterIdle
    /\ PageIdle
    /\ StorageFine
    /\ DashIdle
    /\ PostsIdle
    /\ NotifIdle
    \* every tab has fetched the count and found no row of the visitor
    /\ tabs = [t \in TabIds |->
                 [stats |-> [likesCount |-> likes_count[TabPet], isLiked |-> FALSE],
                  processing |-> FALSE, pc |-> "idle", visitorId |-> Null,
                  result |-> "none", count0 |-> likes_count[TabPet]]]

\* likePet up to localStorage.getItem('visitor_id'): setProcessing(true) and the read;
\* with a stored token the insert is sent in the same step
TabLikeRead(t) ==
    /\ tabs[t].pc = "idle"
    /\ IF visitor_id # Null
          THEN /\ tabs' = [tabs EXCEPT ![t].processing = TRUE, ![t].pc = "sent",
                                       ![t].visitorId = visitor_id]
               /\ UNCHANGED generated
          ELSE /\ tabs' = [tabs EXCEPT ![t].processing = TRUE, ![t].pc = "generated",
                                       ![t].visitorId = Tokens[generated + 1]]
               /\ generated' = generated + 1
    /\ UNCHANGED <<visitor_id, likes_count, pet_likes, TabsFrame>>

\* localStorage.setItem('visitor_id', visitorId), return, and the insert is sent
TabLikeWrite(t) ==
    /\ tabs[t].pc = "generated"
    /\ visitor_id' = tabs[t].visitorId
    /\ tabs' = [tabs EXCEPT ![t].pc = "sent"]
    /\ UNCHANGED <<generated, likes_count, pet_likes, TabsFrame>>

\* the store executes the insert of a tab
TabStoreInsert(t) ==
    /\ tabs[t].pc = "sent"
    /\ LET row == <<TabPet, tabs[t].visitorId>> IN
        \/ /\ ~Conflicts(row)
           /\ pet_likes' = pet_likes \cup {row}
           /\ likes_count' = [likes_count EXCEPT ![TabPet] = CountAfterInsert(@)]
           /\ tabs' = [tabs EXCEPT ![t].pc = "resp", ![t].result = "ok"]
        \/ /\ Conflicts(row)
           /\ tabs' = [tabs EXCEPT ![t].pc = "resp", ![t].result = "23505"]
           /\ UNCHANGED <<pet_likes, likes_count>>
        \/ /\ tabs' = [tabs EXCEPT ![t].pc = "resp", ![t].result = "error"]
           /\ UNCHANGED <<pet_likes, likes_count>>
    /\ UNCHANGED <<visitor_id, generated, TabsFrame>>

\* likePet of a tab resumes after the await
TabLikeResponse(t) ==
    /\ tabs[t].pc = "resp"
    /\ tabs' = [tabs EXCEPT
                   ![t].stats = IF tabs[t].result = "ok" THEN LikedStats(@)
                                ELSE IF tabs[t].result = "23505" THEN ConflictStats(@)
                                ELSE FailedStats(@, tabs[t]),
                   ![t].processing = SettledProcessing(tabs[t]),
                   ![t].pc = "done"]
    /\ UNCHANGED <<visitor_id, generated, likes_count, pet_likes, TabsFrame>>

TabsNext ==
    \/ \E t \in TabIds : TabLikeRead(t)
    \/ \E t \in TabIds : TabLikeWrite(t)
    \/ \E t \in TabIds : TabStoreInsert(t)
    \/ \E t \in TabIds : TabLikeResponse(t)

SpecTabs ==
    TabsInit /\ [][TabsNext]_vars

----------------------------------------------------------------------------
(* UserDashboard: the likes of the owner's pet, fetched once and then kept   *)
(* up to date by the realtime channel on the pets row.                       *)

\* the store's counter stays within 0..MaxDashCount
MaxDashCount ==
    2

\* realtime payloads on their way to the dashboard
MaxPushes ==
    2

DashPet ==
    "p1"

DashFrame ==
    <<petId, mounted, stats, loading, processing, visitor_id, pet_likes, fetches,
      mutations, toast, generated, lastVisitorId, last, routerVars, pageVars,
      storageOk, tabs, posts, notif>>

\* history: the last push delivered since the last fetch response (pushed, the value
\* displayed before it, and whether it was a repeated delivery); the `delivered` field
\* of dash says that the oldest payload has been delivered already
NoPush ==
    [pushed |-> -1, before |-> -1, again |-> FALSE]

DashInit ==
    /\ petId = NoPet
    /\ mounted = FALSE
    /\ stats = InitialStats
    /\ loading = TRUE
    /\ processing = FALSE
    /\ visitor_id = Null
    /\ generated = 0
    /\ likes_count \in [Pets -> 0..MaxDashCount]
    /\ pet_likes = {}
    /\ fetches = <<>>
    /\ mutations = <<>>
    /\ toast = "none"
    /\ lastVisitorId = Null
    /\ last = NoLast
    /\ RouterIdle
    /\ PageIdle
    /\ StorageFine
    /\ TabsIdle
    /\ PostsIdle
    /\ NotifIdle
    \* useState(petData.likes)
    /\ \E likes \in 0..1 :
        dash = [actualLikes |-> likes, petLikes |-> likes, pc |-> "render",
                subscribed |-> FALSE, pushes |-> <<>>, delivered |-> FALSE,
                last |-> NoPush]

\* the effect runs: fetchPetLikes() is called and the channel is subscribed
DashMount ==
    /\ dash.pc = "render"
    /\ dash' = [dash EXCEPT !.pc = "sent", !.subscribed = TRUE]
    /\ UNCHANGED <<likes_count, DashFrame>>

\* the store answers the read of pets.likes_count and fetchPetLikes resumes
DashFetched ==
    /\ dash.pc = "sent"
    /\ \/ dash' = [dash EXCEPT !.pc = "done",
                               !.actualLikes = OrZero(<<likes_count[DashPet]>>),
                               !.last = NoPush]
       \/ \* catch: setActualLikes(petData.likes)
          dash' = [dash EXCEPT !.pc = "done", !.actualLikes = dash.petLikes,
                               !.last = NoPush]
    /\ UNCHANGED <<likes_count, DashFrame>>

\* a like or unlike of some visitor updates the pets row; the store publishes the new row
DashStoreUpdate ==
    /\ \E n \in 0..MaxDashCount :
        /\ n # likes_count[DashPet]
        /\ n - likes_count[DashPet] \in {-1, 1}
        /\ likes_count' = [likes_count EXCEPT ![DashPet] = n]
        /\ IF dash.subscribed
              THEN /\ Len(dash.pushes) < MaxPushes
                   /\ dash' = [dash EXCEPT !.pushes = Append(@, <<n>>)]
              ELSE UNCHANGED dash
    /\ UNCHANGED DashFrame

PushedLikesAdded(prev, payload) ==
    IF payload # <<>> THEN prev + payload[1] ELSE prev

\* if (payload.new && 'likes_count' in payload.new) setActualLikes(payload.new.likes_count)
PushedLikes(prev, payload) ==
    IF payload # <<>> THEN payload[1] ELSE prev

\* the channel delivers the oldest payload to the callback; it may deliver it once more
DashPush ==
    /\ dash.pushes # <<>>
    /\ \E again \in BOOLEAN :
        dash' = [dash EXCEPT
                    !.actualLikes = PushedLikes(@, Head(dash.pushes)),
                    !.pushes = IF again THEN @ ELSE Tail(@),
                    !.delivered = again,
                    !.last = [pushed |-> Head(dash.pushes)[1],
                              before |-> dash.actualLikes,
                              again |-> dash.delivered]]
    /\ UNCHANGED <<likes_count, DashFrame>>

DashNext ==
    \/ DashMount
    \/ DashFetched
    \/ DashStoreUpdate
    \/ DashPush

SpecDash ==
    DashInit /\ [][DashNext]_vars

----------------------------------------------------------------------------
(* Navigation between two public pet pages: PublicViewRouter re-renders
   <PublicPetProfile petId={publicPetId} /> (no key, so the same instance) and the
   effect of usePetLikes starts a fetch for the new id; the fetch of the previous id is
   neither cancelled nor told apart when it resumes *)

NavPets ==
    {"p1", "p2"}

NavInit ==
    /\ petId \in NavPets
    /\ mounted = FALSE
    /\ stats = InitialStats
    /\ loading = TRUE
    /\ processing = FALSE
    /\ visitor_id = Tokens[1]
    /\ generated = 1
    /\ likes_count \in [NavPets -> 0..MaxOtherLikes]
    /\ pet_likes \in SUBSET (NavPets \X {Tokens[1]})
    /\ fetches = <<>>
    /\ mutations = <<>>
    /\ toast = "none"
    /\ lastVisitorId = Null
    /\ last = NoLast
    /\ RouterIdle
    /\ PageIdle
    /\ StorageFine
    /\ TabsIdle
    /\ DashIdle
    /\ PostsIdle
    /\ NotifIdle

\* popstate to the page of another pet: setPublicPetId, re-render, the effect runs again
Navigate ==
    /\ mounted
    /\ \E pid \in NavPets \ {petId} :
        /\ petId' = pid
        /\ fetchLikeStatsWithin(MaxNavFetches, pid, NewToken)
    /\ last' = NoLast
    /\ UNCHANGED <<mounted, stats, processing, likes_count, pet_likes, mutations>>
    /\ UNCHANGED <<routerVars, pageVars, extraVars>>

NavNext ==
    \/ Mount
    \/ Navigate
    \/ FetchAfterPets
    \/ StoreReadLikes
    \/ FetchApply

SpecNav ==
    NavInit /\ [][NavNext]_vars

----------------------------------------------------------------------------
(* usePosts: one post of the local list, its like rows in the store, and the
   toggleLike calls of the signed-in (or anonymous) user on it.

   posts.likes_count, posts.is_liked  the post as the local list holds it
   posts.userRows, posts.others       rows of the `likes` table for this post: of
                                      the user, and of everybody else
   posts.calls                        toggleLike calls awaiting the store
   posts.started                      number of calls made (bounds the model) *)

MaxPostCalls ==
    3

MaxPostOthers ==
    1

\* rows of one (post, user) pair the model lets the store hold
MaxUserRows ==
    2

PostUsers ==
    {Null, "u1"}

ToastPostsError ==
    "Error al cargar las publicaciones"

ToastPostsLogin ==
    "Debes iniciar sesion para dar like"

ToastPostsLikeError ==
    "Error al procesar el like"

PostsFrame ==
    <<hookVars, routerVars, pageVars, storageOk, tabs, dash, notif>>

PostsInit ==
    /\ HookIdle
    /\ RouterIdle
    /\ PageIdle
    /\ StorageFine
    /\ TabsIdle
    /\ DashIdle
    /\ NotifIdle
    /\ \E u \in PostUsers, rows \in 0..1, others \in 0..MaxPostOthers :
        posts = [userId |-> u, pc |-> "render", listed |-> FALSE,
                 likes_count |-> 0, is_liked |-> FALSE,
                 userRows |-> IF u = Null THEN 0 ELSE rows, others |-> others,
                 calls |-> <<>>, started |-> 0, toast |-> "none"]

\* useEffect(() => { fetchPosts() }, [fetchPosts])
PostsMount ==
    /\ posts # <<>>
    /\ posts.pc = "render"
    /\ posts' = [posts EXCEPT !.pc = "fetching"]
    /\ UNCHANGED PostsFrame

\* `likesCount || 0` of the exact count of the likes rows of the post
FetchedPostLikes(p) ==
    p.userRows + p.others

\* `!!userLike` of .eq('post_id').eq('user_id').single(): data is null unless exactly
\* one row matches
FetchedPostIsLiked(p) ==
    p.userId # Null /\ p.userRows = 1

\* fetchPosts resumes: setPosts(postsWithDetails), or the catch block
PostsFetched ==
    /\ posts # <<>>
    /\ posts.pc = "fetching"
    /\ \/ posts' = [posts EXCEPT !.pc = "ready", !.listed = TRUE,
                                 !.likes_count = FetchedPostLikes(posts),
                                 !.is_liked = FetchedPostIsLiked(posts)]
       \/ posts' = [posts EXCEPT !.pc = "ready", !.toast = ToastPostsError]
    /\ UNCHANGED PostsFrame

\* toggleLike has no in-flight guard
ToggleLikeBusy(p) ==
    FALSE

\* toggleLike up to its await: the branch is chosen from the `posts` of the render
PostsToggle ==
    /\ posts # <<>>
    /\ posts.pc = "ready"
    /\ posts.started < MaxPostCalls
    /\ IF posts.userId = Null
           THEN posts' = [posts EXCEPT !.toast = ToastPostsLogin,
                                       !.started = @ + 1]
       ELSE IF ~posts.listed \/ ToggleLikeBusy(posts)
           THEN posts' = [posts EXCEPT !.started = @ + 1]
       ELSE posts' = [posts EXCEPT
                !.started = @ + 1,
                !.calls = Append(@, [kind |-> IF posts.is_liked THEN "unlike" ELSE "like",
                                     pc |-> "sent", result |-> "none"])]
    /\ UNCHANGED PostsFrame

\* the store executes the delete (every row of the pair; none is not an error) or the
\* insert (refused, or one more row) of a call
PostsStore ==
    /\ posts # <<>>
    /\ \E i \in DOMAIN posts.calls :
        /\ posts.calls[i].pc = "sent"
        /\ \/ posts' = [posts EXCEPT !.calls[i].pc = "resp", !.calls[i].result = "error"]
           \/ /\ posts.calls[i].kind = "unlike"
              /\ posts' = [posts EXCEPT !.calls[i].pc = "resp", !.calls[i].result = "ok",
                                        !.userRows = 0]
           \/ /\ posts.calls[i].kind = "like"
              /\ posts.userRows < MaxUserRows
              /\ posts' = [posts EXCEPT !.calls[i].pc = "resp", !.calls[i].result = "ok",
                                        !.userRows = @ + 1]
    /\ UNCHANGED PostsFrame

\* setPosts(prev => prev.map(...)) of the unlike and of the like branch
PostAfterToggle(p, kind) ==
    IF kind = "unlike"
        THEN [p EXCEPT !.is_liked = FALSE, !.likes_count = @ - 1]
        ELSE [p EXCEPT !.is_liked = TRUE, !.likes_count = @ + 1]

\* toggleLike resumes after its await
PostsSettle ==
    /\ posts # <<>>
    /\ \E i \in DOMAIN posts.calls :
        /\ posts.calls[i].pc = "resp"
        /\ LET c == posts.calls[i]
               p == [posts EXCEPT !.calls = RemoveAt(@, i)]
           IN  posts' = IF c.result = "ok"
                            THEN PostAfterToggle(p, c.kind)
                            ELSE [p EXCEPT !.toast = ToastPostsLikeError]
    /\ UNCHANGED PostsFrame

PostsNext ==
    \/ PostsMount
    \/ PostsFetched
    \/ PostsToggle
    \/ PostsStore
    \/ PostsSettle

SpecPosts ==
    PostsInit /\ [][PostsNext]_vars

----------------------------------------------------------------------------
(* useNotifications of a signed-in user.

   notif.list         the local `notifications`, newest first: records [id, read]
   notif.unreadCount  the local `unreadCount`
   notif.store        the rows of the user in the `notifications` table: id -> read
   notif.nextId       the id the next inserted notification gets

   Each handler is one step: its request, the store's answer and the state updates
   that follow the await.  Inserts are delivered once the initial fetch has settled. *)

\* ids of the notifications the store holds when the hook mounts
InitialNotifIds ==
    {1, 2}

\* the greatest id a notification created while the hook is mounted gets
MaxNotifId ==
    3

ToastNotifLoadError ==
    "Error al cargar notificaciones"

ToastNotifNew ==
    "Nueva notificacion"

ToastNotifReadError ==
    "Error al marcar como leida"

ToastNotifAllRead ==
    "Todas las notificaciones marcadas como leidas"

ToastNotifAllReadError ==
    "Error al marcar todas como leidas"

ToastNotifDeleted ==
    "Notificacion eliminada"

ToastNotifDeleteError ==
    "Error al eliminar notificacion"

NotifFrame ==
    <<hookVars, routerVars, pageVars, storageOk, tabs, dash, posts>>

NotifInit ==
    /\ HookIdle
    /\ RouterIdle
    /\ PageIdle
    /\ StorageFine
    /\ TabsIdle
    /\ DashIdle
    /\ PostsIdle
    /\ \E ids \in SUBSET InitialNotifIds :
        \E rows \in [ids -> BOOLEAN] :
            notif = [pc |-> "render", list |-> <<>>, unreadCount |-> 0,
                     store |-> rows, nextId |-> MaxNotifId, toast |-> "none"]

\* useEffect: fetchNotifications() and the channel subscription
NotifMount ==
    /\ notif # <<>>
    /\ notif.pc = "render"
    /\ notif' = [notif EXCEPT !.pc = "fetching"]
    /\ UNCHANGED NotifFrame

\* the rows with id <= n, newest (greatest id) first
RECURSIVE RowsFrom(_, _)
RowsFrom(rows, n) ==
    IF n = 0 THEN <<>>
    ELSE IF n \in DOMAIN rows
        THEN <<[id |-> n, read |-> rows[n]]>> \o RowsFrom(rows, n - 1)
    ELSE RowsFrom(rows, n - 1)

\* notificationsData.filter(n => !n.read).length
Unread(list) ==
    Cardinality({i \in DOMAIN list : ~list[i].read})

\* fetchNotifications resumes: setNotifications, setUnreadCount; or the catch block
NotifFetched ==
    /\ notif # <<>>
    /\ notif.pc = "fetching"
    /\ \/ LET data == RowsFrom(notif.store, MaxNotifId) IN
              notif' = [notif EXCEPT !.pc = "ready", !.list = data,
                                     !.unreadCount = Unread(data)]
       \/ notif' = [notif EXCEPT !.pc = "ready", !.toast = ToastNotifLoadError]
    /\ UNCHANGED NotifFrame

\* a notification for the user is inserted; the realtime callback reads the row and
\* prepends it: setUnreadCount(prev => prev + 1)
NotifInsert ==
    /\ notif # <<>>
    /\ notif.pc = "ready"
    /\ notif.nextId <= MaxNotifId
    /\ LET id == notif.nextId IN
        notif' = [notif EXCEPT
            !.store = [n \in DOMAIN @ \cup {id} |-> IF n = id THEN FALSE ELSE @[n]],
            !.nextId = id + 1,
            !.list = <<[id |-> id, read |-> FALSE]>> \o @,
            !.unreadCount = @ + 1,
            !.toast = ToastNotifNew]
    /\ UNCHANGED NotifFrame

\* markAsRead: setUnreadCount(prev => Math.max(0, prev - 1)), whatever the
\* notification's read flag was
UnreadAfterMark(list, id, prev) ==
    MathMax0(prev - 1)

\* markAsRead(notificationId) for a notification of the list
NotifMarkAsRead ==
    /\ notif # <<>>
    /\ notif.pc = "ready"
    /\ \E i \in DOMAIN notif.list :
        LET id == notif.list[i].id IN
            \/ notif' = [notif EXCEPT !.toast = ToastNotifReadError]
            \/ notif' = [notif EXCEPT
                  !.store = [n \in DOMAIN @ |-> IF n = id THEN TRUE ELSE @[n]],
                  !.list = [j \in DOMAIN @ |->
                               IF @[j].id = id THEN [@[j] EXCEPT !.read = TRUE] ELSE @[j]],
                  !.unreadCount = UnreadAfterMark(notif.list, id, @)]
    /\ UNCHANGED NotifFrame

\* markAllAsRead
NotifMarkAllAsRead ==
    /\ notif # <<>>
    /\ notif.pc = "ready"
    /\ \/ notif' = [notif EXCEPT !.toast = ToastNotifAllReadError]
       \/ notif' = [notif EXCEPT
             !.store = [n \in DOMAIN @ |-> TRUE],
             !.list = [j \in DOMAIN @ |-> [@[j] EXCEPT !.read = TRUE]],
             !.unreadCount = 0,
             !.toast = ToastNotifAllRead]
    /\ UNCHANGED NotifFrame

\* prev.filter(n => n.id !== notificationId)
RECURSIVE Without(_, _)
Without(list, id) ==
    IF list = <<>> THEN <<>>
    ELSE IF Head(list).id = id THEN Without(Tail(list), id)
    ELSE <<Head(list)>> \o Without(Tail(list), id)

\* deleteNotification(notificationId) for a notification of the list
NotifDelete ==
    /\ notif # <<>>
    /\ notif.pc = "ready"
    /\ \E i \in DOMAIN notif.list :
        LET id == notif.list[i].id
            wasUnread == notif.list[i].read = FALSE
        IN  \/ notif' = [notif EXCEPT !.toast = ToastNotifDeleteError]
            \/ notif' = [notif EXCEPT
                  !.store = [n \in DOMAIN @ \ {id} |-> @[n]],
                  !.list = Without(@, id),
                  !.unreadCount = IF wasUnread THEN MathMax0(@ - 1) ELSE @,
                  !.toast = ToastNotifDeleted]
    /\ UNCHANGED NotifFrame

NotifNext ==
    \/ NotifMount
    \/ NotifFetched
    \/ NotifInsert
    \/ NotifMarkAsRead
    \/ NotifMarkAllAsRead
    \/ NotifDelete

SpecNotif ==
    NotifInit /\ [][NotifNext]_vars

----------------------------------------------------------------------------
(* Claims *)

\* C1: a toggle made while a like/unlike request of the tracker is in flight issues no
\* second request: at most one insert-or-delete of the tracker is in flight at any time.
C1_AtMostOneMutationInFlight ==
    Len(mutations) <= 1

\* a request is in flight (sent, not yet executed by the store) and further clicks are ignored
C1_Witness ==
    /\ Len(mutations) = 1
    /\ mutations[1].pc = "sent"
    /\ processing
    /\ ToggleBlocked

\* C2: a like whose insert the store accepts settles, out of processing, with the count
\* one greater than the count displayed when it was called and the flag true (no fetch
\* result having replaced the stats while the request was in flight); while its request
\* is in flight the tracker is processing.
C2_LikeSuccess ==
    /\ mutations # <<>> => processing
    /\ (last.kind = "like" /\ last.result = "ok" /\ last.before >= 0) =>
           /\ stats = [likesCount |-> last.before + 1, isLiked |-> TRUE]
           /\ ~processing

\* a like called at count 1 has settled at count 2, flag true (the 7 -> 8 of the scenario)
C2_Witness ==
    /\ last.kind = "like"
    /\ last.result = "ok"
    /\ last.before = 1
    /\ stats = [likesCount |-> 2, isLiked |-> TRUE]
    /\ ~processing
    /\ ~loading

\* C3: a like whose insert returns the uniqueness conflict 23505 settles with the flag
\* true and the count exactly the count displayed when it was called.
C3_LikeConflict ==
    (last.kind = "like" /\ last.result = "23505" /\ last.before >= 0) =>
        stats = [likesCount |-> last.before, isLiked |-> TRUE]

\* a like has met the conflict and settled
C3_Witness ==
    /\ last.kind = "like"
    /\ last.result = "23505"
    /\ last.before >= 0
    /\ stats.isLiked
    /\ toast = ToastAlreadyLiked

\* C4: a like or unlike that fails for another reason settles with count and flag as they
\* were when it was called, an error toast shown, and no request in flight (none re-issued).
C4_MutationFailure ==
    (last.result = "error" /\ last.before >= 0) =>
        /\ stats = [likesCount |-> last.before, isLiked |-> (last.kind = "unlike")]
        /\ toast = (IF last.kind = "like" THEN ToastLikeError ELSE ToastUnlikeError)
        /\ mutations = <<>>
        /\ ~processing

\* an unlike called at a count of at least 1 has failed and settled
C4_Witness ==
    /\ last.kind = "unlike"
    /\ last.result = "error"
    /\ last.before >= 1
    /\ toast = ToastUnlikeError
    /\ stats.isLiked

\* C5: an unlike that succeeds settles with the count max(0, count when called - 1) and
\* the flag false; called at count 0 it leaves the count at 0.
C5_UnlikeSuccess ==
    (last.kind = "unlike" /\ last.result = "ok" /\ last.before >= 0) =>
        stats = [likesCount |-> IF last.before = 0 THEN 0 ELSE last.before - 1,
                 isLiked |-> FALSE]

\* an unlike called at count 0 has succeeded
C5_Witness ==
    /\ last.kind = "unlike"
    /\ last.result = "ok"
    /\ last.before = 0
    /\ stats = [likesCount |-> 0, isLiked |-> FALSE]

\* C6: the displayed like count is never negative.
C6_CountNonNegative ==
    /\ stats.likesCount >= 0
    /\ \A p \in Pets : likes_count[p] >= 0

\* the count is 0 with the flag true and the store has executed the delete of an unlike
C6_Witness ==
    /\ stats = [likesCount |-> 0, isLiked |-> TRUE]
    /\ Len(mutations) = 1
    /\ mutations[1].kind = "unlike"
    /\ mutations[1].pc = "resp"
    /\ mutations[1].result = "ok"

\* C7: a successful like followed by a successful unlike leaves the count and the flag
\* as they were when the like was called.
C7_RoundTrip ==
    (last.kind = "unlike" /\ last.result = "ok" /\ last.trip >= 0) =>
        stats = [likesCount |-> last.trip, isLiked |-> FALSE]

\* a like called at count 1 and the unlike after it have both succeeded
C7_Witness ==
    /\ last.kind = "unlike"
    /\ last.result = "ok"
    /\ last.trip = 1
    /\ last.before = 2
    /\ stats.likesCount = 1

\* C8: getVisitorId is idempotent: a call returns the token the call before it returned;
\* the token a call returns is in storage when the call returns (a generated token is
\* written before it is returned, a stored one is returned as stored); and no step of
\* the tracker changes a stored token.
C8_VisitorIdentityIdempotent ==
    [][ /\ lastVisitorId # Null => lastVisitorId' = lastVisitorId
        /\ lastVisitorId' # Null => visitor_id' = lastVisitorId'
        /\ (visitor_id # Null /\ lastVisitorId' # Null) => lastVisitorId' = visitor_id
        /\ visitor_id # Null => visitor_id' = visitor_id ]_vars

\* getVisitorId has been called by a fetch and by a like, and both hold the stored token
C8_Witness ==
    /\ Len(fetches) = 1
    /\ Len(mutations) = 1
    /\ fetches[1].visitorId = mutations[1].visitorId
    /\ lastVisitorId = mutations[1].visitorId
    /\ visitor_id = lastVisitorId

\* the step in which fetch i applies its result
FetchApplies(i) ==
    /\ fetches[i].pc = "likes_resp"
    /\ mounted'
    /\ fetches' = RemoveAt(fetches, i)

\* C9: a fetch both of whose reads succeeded sets the count to the store's counter of the
\* pet and the flag to whether the store holds the row of (pet, stored visitor token),
\* whatever the stats were before (the store not having changed since the counter was read).
C9_FetchReplaces ==
    [][ \A i \in DOMAIN fetches :
            (FetchApplies(i) /\ ~fetches[i].likeError /\ ~fetches[i].stale) =>
                stats' = [likesCount |-> likes_count[fetches[i].petId],
                          isLiked |-> <<fetches[i].petId, visitor_id>> \in pet_likes] ]_vars

\* after a like and a reload the fetch has shown the store's count 2 and the flag true
C9_Witness ==
    /\ mounted
    /\ toast = "none"
    /\ fetches = <<>>
    /\ ~loading
    /\ mutations = <<>>
    /\ ~processing
    /\ <<"p1", visitor_id>> \in pet_likes
    /\ stats = [likesCount |-> 2, isLiked |-> TRUE]
    /\ likes_count["p1"] = 2

\* the step in which fetch i fails on its first read
FetchFails(i) ==
    /\ fetches[i].pc = "pets_sent"
    /\ mounted'
    /\ fetches' = RemoveAt(fetches, i)

\* C10: a fetch that fails leaves loading false and count, flag and processing as they
\* were (zero and false for the initial fetch) and shows the load-error toast; and
\* whenever that toast is up and no like/unlike is in flight, a toggle is accepted and
\* issues a request, and so does a refresh.
C10_FetchFailure ==
    /\ [][ \A i \in DOMAIN fetches :
               FetchFails(i) =>
                   /\ ~loading'
                   /\ stats' = stats
                   /\ processing' = processing
                   /\ toast' = ToastLoadError ]_vars
    /\ []( (mounted /\ petId # NoPet /\ toast = ToastLoadError /\ mutations = <<>>) =>
               /\ ~processing
               /\ ENABLED (Toggle /\ Len(mutations') = 1)
               /\ Len(fetches) < MaxFetches =>
                      ENABLED (Refresh /\ Len(fetches') = Len(fetches) + 1) )

\* the initial fetch has failed: load-error toast, not loading, count 0, flag false
C10_Witness ==
    /\ mounted
    /\ petId # NoPet
    /\ toast = ToastLoadError
    /\ ~loading
    /\ ~processing
    /\ stats = InitialStats
    /\ fetches = <<>>
    /\ mutations = <<>>

----------------------------------------------------------------------------
(* Claims about the route classifier, under SpecRoute *)

HexDigits ==
    {"0", "1", "2", "3", "4", "5", "6", "7", "8", "9",
     "a", "b", "c", "d", "e", "f", "A", "B", "C", "D", "E", "F"}

\* an identifier of the canonical shape: 8-4-4-4-12 hexadecimal digits
UuidShaped(id) ==
    /\ Len(id) = 36
    /\ \A k \in 1..36 :
        IF k \in {9, 14, 19, 24} THEN id[k] = "-" ELSE id[k] \in HexDigits

PetSegment ==
    <<"/", "p", "e", "t", "/">>

DeploymentPrefix ==
    <<"/">> \o REPO_NAME

\* the path is pre, then /pet/, then id, then suf
Composed(p, pre, id, suf) ==
    p = pre \o PetSegment \o id \o suf

\* the last n characters of the path, before a suffix of k characters
Segment(p, n, k) ==
    SubSeq(p, Len(p) - k - n + 1, Len(p) - k)

\* a path of the shape [<deployment-prefix>/]pet/<uuid>
PublicEntityPath(p) ==
    /\ Len(p) >= Len(PetSegment) + 36
    /\ UuidShaped(Segment(p, 36, 0))
    /\ \E pre \in {<<>>, DeploymentPrefix} : Composed(p, pre, Segment(p, 36, 0), <<>>)

\* C11: once the router has classified a path of the shape [<deployment-prefix>/]pet/<uuid>,
\* with a UUID of 8-4-4-4-12 hexadecimal digits in any letter case, it has matched: the
\* captured id is the UUID segment of the path and the public profile is rendered for it.
C11_PublicPathMatches ==
    (listening /\ PublicEntityPath(location.pathname))
        => /\ publicPetId = Segment(location.pathname, 36, 0)
           /\ Rendered(publicPetId).view = "PublicPetProfile"

\* C11 witness: a path with the deployment prefix and an upper-case UUID has been classified
C11_Witness ==
    /\ listening
    /\ location.pathname = DeploymentPrefix \o PetSegment \o Grouped("A", "0", "F", "9", "C")
    /\ publicPetId = Grouped("A", "0", "F", "9", "C")

\* /pet/ stands at position j of the path
PetAt(p, j) ==
    /\ j + Len(PetSegment) - 1 <= Len(p)
    /\ SubSeq(p, j, j + Len(PetSegment) - 1) = PetSegment

\* the segment of the path that starts at position k: up to the next '/' or the end
SegmentFrom(p, k) ==
    LET ends == {e \in (k - 1)..Len(p) :
                    /\ e = Len(p) \/ p[e + 1] = "/"
                    /\ \A x \in k..e : p[x] # "/"} IN
    SubSeq(p, k, CHOOSE e \in ends : \A f \in ends : e <= f)

\* the segment right after a /pet/ of the path is an identifier of the canonical shape
HasUuidAfterPet(p) ==
    \E j \in 1..Len(p) : PetAt(p, j) /\ UuidShaped(SegmentFrom(p, j + Len(PetSegment)))

\* C12: a path whose segment right after /pet/ is no identifier of the canonical shape
\* (8-4-4-4-12 hexadecimal digits) is not matched: the router has captured no id and
\* renders the normal application shell.
C12_MalformedIdNotMatched ==
    (listening /\ ~HasUuidAfterPet(location.pathname))
        => /\ publicPetId = NoMatch
           /\ Rendered(publicPetId).view = "children"

\* a public-entity path followed by one '/'
TrailingSlashed(p) ==
    /\ Len(p) > 1
    /\ p[Len(p)] = "/"
    /\ PublicEntityPath(SubSeq(p, 1, Len(p) - 1))

\* C13: a public-entity location with a trailing slash after the identifier, or with a
\* query string or a fragment, is still matched, and the captured id is the identifier
\* segment of the path.
C13_TrailingPartsStillMatch ==
    /\ (listening /\ TrailingSlashed(location.pathname))
        => publicPetId = Segment(location.pathname, 36, 1)
    /\ (listening /\ PublicEntityPath(location.pathname)
            /\ (location.search # "" \/ location.hash # ""))
        => publicPetId = Segment(location.pathname, 36, 0)

\* the exact pattern: the optional deployment prefix, then /pet/, then 36 characters of
\* an identifier, and nothing before or after
ExactPattern(p) ==
    /\ Len(p) >= Len(PetSegment) + 36
    /\ \A k \in 1..36 : IdChar(Segment(p, 36, 0)[k])
    /\ \E pre \in {<<>>, DeploymentPrefix} : Composed(p, pre, Segment(p, 36, 0), <<>>)

\* C14: a path that is not of the exact pattern (optional fixed deployment prefix, then
\* /pet/, then the identifier) falls through to the normal application shell; so do a
\* prefix-only path and a path whose /pet/<uuid> follows other segments than the prefix.
C14_OnlyExactPatternMatches ==
    (listening /\ ~ExactPattern(location.pathname))
        => /\ publicPetId = NoMatch
           /\ Rendered(publicPetId).view = "children"

\* C15: the route is evaluated again on every popstate event: after the event the router
\* renders the public profile for the id captured from the path the location then has,
\* when that path matches, and the normal application shell when it does not.
C15_PopstateReevaluates ==
    lastEvent = "popstate"
        => Rendered(publicPetId) = Rendered(detectPublicRoute(location.pathname))

\* C15 witness: a history navigation has brought the router to a public profile
C15_Witness ==
    /\ lastEvent = "popstate"
    /\ location.pathname = PetSegment \o Grouped("a", "0", "f", "9", "c")
    /\ Rendered(publicPetId) =
           [view |-> "PublicPetProfile", petId |-> Grouped("a", "0", "f", "9", "c")]

----------------------------------------------------------------------------
(* Claims about the public page, under SpecPage *)

\* C16: on the public pet profile page, a click on the like button by a visitor who is
\* not signed in runs the tracker's toggle and leaves a like or unlike request of the
\* visitor in flight; no sign-in is asked for first.
C16_AnonymousClickToggles ==
    (clicked.outcome # "none" /\ clicked.by = Null)
        => /\ clicked.outcome = "toggle"
           /\ mutations # <<>>
           /\ ~showAuthPrompt

----------------------------------------------------------------------------
(* Further claims about the tracker, under Spec *)

\* C17: a toggle starts a mutation only from the ready state: no step taken while the
\* engagement-state fetch is still in flight (loading) puts a like or unlike request in
\* flight.
C17_NoMutationWhileLoading ==
    [][(loading /\ fetches # <<>>) => Len(mutations') <= Len(mutations)]_vars

\* every operation of the tracker has settled, and the last one to report did not fail
AllSettled ==
    /\ mounted
    /\ petId # NoPet
    /\ fetches = <<>>
    /\ mutations = <<>>
    /\ toast \notin {ToastLoadError, ToastLikeError, ToastUnlikeError}

\* C18: once all in-flight operations of the tracker have settled, the displayed like-flag
\* says whether the store holds a pet_likes row for (petId, visitor token).
C18_FlagConsistentWhenSettled ==
    AllSettled => (stats.isLiked <=> <<petId, visitor_id>> \in pet_likes)

\* C19: the processing flag is set only while a like or unlike request is in flight, and
\* every like or unlike that received its response (success, conflict or failure) has
\* left the tracker not processing, where the next toggle is accepted.
C19_ProcessingOnlyWhileInFlight ==
    /\ processing => mutations # <<>>
    /\ last.kind # "none" => (~processing /\ ~ToggleBlocked)

\* C19 witness: a like that failed has settled and the tracker accepts a toggle again
C19_Witness ==
    /\ last.kind = "like"
    /\ last.result = "error"
    /\ ~processing
    /\ mutations = <<>>

\* C20: the fetch fails as a whole when the lookup of the visitor's pet_likes row fails
\* after the counter was read: the step that ends such a fetch leaves count and flag as
\* they were, and does not show the flag false to a visitor whose row the store holds.
C20_LookupFailureFailsFetch ==
    [][ \A i \in DOMAIN fetches :
            (FetchApplies(i) /\ fetches[i].likeError) =>
                /\ stats' = stats
                /\ <<fetches[i].petId, fetches[i].visitorId>> \in pet_likes
                       => stats'.isLiked ]_vars

\* C21: a duplicate-conflict response to a like is handled as the "already liked" success
\* path: the call reports success (resolves to true) and no failure is shown to the user.
C21_ConflictIsSuccess ==
    (last.kind = "like" /\ last.result = "23505")
        => /\ last.returned
           /\ toast \notin {ToastLikeError, ToastLoadError}

----------------------------------------------------------------------------
(* Claims about two tabs, under SpecTabs *)

\* C22: whatever the interleaving of the getVisitorId calls of the tabs of one browser
\* that starts without a stored token, a token is generated and written at most once and
\* every call returns that same token.
C22_OneIdentityPerBrowser ==
    /\ generated <= 1
    /\ \A t, u \in TabIds :
        (tabs[t].pc \notin {"idle", "generated"} /\ tabs[u].pc \notin {"idle", "generated"})
            => tabs[t].visitorId = tabs[u].visitorId

\* both tabs have liked under the same visitor token and got a response from the store
BothLikedAsOne ==
    /\ \A t \in TabIds : tabs[t].pc = "done" /\ tabs[t].result # "error"
    /\ \A t, u \in TabIds : tabs[t].visitorId = tabs[u].visitorId

\* C23: when two tabs with the same visitor token like the same pet concurrently, in every
\* interleaving the store ends with exactly one pet_likes row for (pet, token) and its
\* counter raised by exactly 1; both trackers settle with the flag true and not
\* processing, and only the tracker whose insert succeeded raises its local count.
C23_DuplicateTabLike ==
    BothLikedAsOne =>
        /\ pet_likes = {<<TabPet, tabs[1].visitorId>>}
        /\ \A t \in TabIds :
            /\ likes_count[TabPet] = tabs[t].count0 + 1
            /\ tabs[t].stats.isLiked
            /\ ~tabs[t].processing
            /\ tabs[t].stats.likesCount =
                   tabs[t].count0 + (IF tabs[t].result = "ok" THEN 1 ELSE 0)
        /\ Cardinality({t \in TabIds : tabs[t].result = "ok"}) = 1

\* C23 witness: both tabs have settled, tab 2 after the conflict answer
C23_Witness ==
    /\ BothLikedAsOne
    /\ tabs[1].result = "ok"
    /\ tabs[2].result = "23505"
    /\ tabs[2].stats = [likesCount |-> tabs[2].count0, isLiked |-> TRUE]

----------------------------------------------------------------------------
(* Further claims about the tracker, under Spec *)

\* the likes of a pet that are not in the rows of pet_likes of this browser
OtherLikes(p) ==
    likes_count[p] - Cardinality({r \in pet_likes : r[1] = p})

\* C24: the client never writes pets.likes_count: in every step in which a call of the
\* tracker advances (a like or unlike is sent, executed by the store or settled), the
\* counter of a pet changes only by the pet_likes rows inserted or deleted in that step.
C24_CounterOnlyByTrigger ==
    [][ (mutations' # mutations \/ stats' # stats \/ processing' # processing)
            => \A p \in Pets : OtherLikes(p)' = OtherLikes(p) ]_vars

\* C24 witness: a like has settled; the store's counter went up with the row
C24_Witness ==
    /\ last.kind = "like"
    /\ last.result = "ok"
    /\ last.before = 0
    /\ likes_count["p1"] = 1
    /\ Cardinality(pet_likes) = 1

----------------------------------------------------------------------------
(* Claims about the dashboard, under SpecDash *)

\* C25: a realtime push of the pet's counter replaces the displayed counter and is never
\* added to it: after a push the displayed value is the pushed value, whatever was
\* displayed before, also when the same push is delivered a second time.
C25_PushReplaces ==
    dash.last.pushed # -1 => dash.actualLikes = dash.last.pushed

\* C25 witness: the push of 1 has been delivered twice over a displayed 1
C25_Witness ==
    /\ dash.last.again
    /\ dash.last.pushed = 1
    /\ dash.last.before = 1
    /\ dash.actualLikes = 1

----------------------------------------------------------------------------
(* Claims about the tracker without browser storage, under SpecStorage *)

\* C26: when localStorage is unavailable the engagement features do not fail outright:
\* the tracker goes on with a per-session identity, so the fetch of the mounted tracker
\* does not end in the load error and a like does not end in the like error (no request
\* is answered with an error by the store here unless it was sent).
C26_DegradesWithoutStorage ==
    (~storageOk /\ mounted /\ petId # NoPet)
        => /\ toast \notin {ToastLoadError, ToastLikeError, ToastUnlikeError}
           /\ lastVisitorId # Null

----------------------------------------------------------------------------
(* Claims about the tracker, under Spec (continued) *)

\* C27: nothing but the response of an in-flight like/unlike request ends it: in every
\* step that does not consume a response (and is not a page reload) while a request is
\* in flight, the tracker stays in processing, the request stays in flight and no further
\* request is issued, so a request that never gets its response keeps the tracker in
\* processing, and its toggles ignored, for as long as the page lives.
C27_HungRequestBlocks ==
    [][(mutations # <<>> /\ Len(mutations') >= Len(mutations))
           => /\ processing'
              /\ ToggleBlocked'
              /\ Len(mutations') = Len(mutations)
              /\ \A i \in 1..Len(mutations) : mutations'[i].kind = mutations[i].kind]_vars

\* an unlike that the store has already executed is waiting for its response, the fetch
\* has long settled, and clicks on the button are ignored
C27_Witness ==
    /\ mounted
    /\ ~loading
    /\ Len(mutations) = 1
    /\ mutations[1].kind = "unlike"
    /\ mutations[1].pc = "resp"
    /\ processing
    /\ ToggleBlocked

----------------------------------------------------------------------------
(* Claims about navigation between pets, under SpecNav *)

\* C28: after the entity id of the tracker changed while a fetch for the previous id was
\* in flight, once every fetch has settled (none of them with the load error) the
\* displayed count is the counter of the latest id, and the like-flag is shown only if
\* the store holds the visitor's like of the latest id, in whatever order the responses
\* arrived.
C28_LatestIdWins ==
    (mounted /\ fetches = <<>> /\ ~loading /\ toast = "none")
        => /\ stats.likesCount = likes_count[petId]
           /\ stats.isLiked => <<petId, visitor_id>> \in pet_likes

----------------------------------------------------------------------------
(* Claims about usePosts, under SpecPosts *)

\* C29: for the post of the local list, under any interleaving of toggleLike calls, the
\* displayed likes_count is never negative, and once every call has settled is_liked
\* tells whether the store holds a like row of the user for the post.
C29_PostLikeConsistent ==
    (posts # <<>> /\ posts.listed)
        => /\ posts.likes_count >= 0
           /\ posts.calls = <<>> => (posts.is_liked <=> posts.userRows > 0)

----------------------------------------------------------------------------
(* Claims about useNotifications, under SpecNotif *)

\* C30: once the initial fetch has settled, under any sequence of markAsRead,
\* markAllAsRead, deleteNotification and realtime inserts, unreadCount is the number of
\* notifications of the local list whose read flag is false.
C30_UnreadCountMatchesList ==
    (notif # <<>> /\ notif.pc = "ready")
        => notif.unreadCount = Unread(notif.list)
====
